---- MODULE Spec2Model ----
(***************************************************************************)
(* Model of service/messageHandler.go of pac-annotations-mapper:           *)
(* AnnotationMapperService.HandleMessage, buildAnnotation and              *)
(* buildConceptAnnotationsHeader, together with the collaborators they     *)
(* touch (the kafka producer, the logrus sink, the wall clock and the      *)
(* uuid generator).                                                        *)
(*                                                                         *)
(* Every invocation of HandleMessage runs in a slot p.  Its local          *)
(* variables are functions of p; what the invocations share (the package   *)
(* variable `predicates`, the service's whitelist, the producer, the       *)
(* clock, the uuid generator) is a plain variable.                         *)
(***************************************************************************)
EXTENDS Integers, Sequences, FiniteSets, TLC

VARIABLES
    whitelist,    \* mapper.whitelist: the strings the compiled pattern matches
    predicates,   \* the package-level map `predicates`
    wallClock,    \* the wall clock time.Now() reads, in milliseconds
    uuidCount,    \* how many version-4 uuids uuid.NewV4() has handed out
    calls,        \* how many HandleMessage invocations have begun
    pc,           \* pc[p]: where invocation p stands
    msg,          \* msg[p]: the inbound kafka.FTMessage
    event,        \* event[p]: metadataPublishEvent
    annotations,  \* annotations[p]: the local slice `annotations`
    outMsg,       \* outMsg[p]: the kafka.FTMessage built at line 72
    ret,          \* ret[p]: what HandleMessage returned
    sendCalls,    \* sendCalls[p]: SendMessage invocations made by this call
    sendResult,   \* sendResult[p]: what the last of them returned
    logs,         \* logs[p]: the log lines this call has emitted
    stamps,       \* Message-Id / Message-Timestamp of every message handed
                  \* to the producer, in the order SendMessage was invoked
    setBack       \* has the wall clock been set back since the start?

vars == <<whitelist, predicates, wallClock, uuidCount, calls, pc, msg, event,
          annotations, outMsg, ret, sendCalls, sendResult, logs, stamps, setBack>>

----------------------------------------------------------------------------
(* Bounds of the model *)

MaxAnnotations == 2   \* longest inbound annotation array
MaxCalls == 3         \* HandleMessage invocations in one behaviour of SpecSeq
MaxClock == 2         \* the wall clock ranges over 0..MaxClock milliseconds

Slots == {1, 2}

----------------------------------------------------------------------------
(* messageHandler.go:15-22 *)

predicateTable ==
    ("http://www.ft.com/ontology/classification/isClassifiedBy" :> "isClassifiedBy") @@
    ("http://www.ft.com/ontology/annotation/hasAuthor" :> "hasAuthor") @@
    ("http://www.ft.com/ontology/annotation/hasContributor" :> "hasContributor") @@
    ("http://www.ft.com/ontology/annotation/about" :> "about") @@
    ("http://www.ft.com/ontology/annotation/hasDisplayTag" :> "hasDisplayTag") @@
    ("http://www.ft.com/ontology/annotation/mentions" :> "mentions")

----------------------------------------------------------------------------
(* Inputs *)

\* The configured pattern, as the set of Origin-System-Id values it matches:
\* one that matches the PAC system code only, and one that also matches the
\* empty string.
WhitelistPatterns ==
    { {"http://cmdb.ft.com/systems/pac"},
      {"http://cmdb.ft.com/systems/pac", ""} }

\* Go's map index expression: the zero value "" for a missing key.
Get(headers, key) == IF key \in DOMAIN headers THEN headers[key] ELSE ""

OriginHeaders ==
    { <<>>,
      "Origin-System-Id" :> "http://cmdb.ft.com/systems/pac",
      "Origin-System-Id" :> "http://cmdb.ft.com/systems/methode-web-pub" }

OtherHeaders ==
    { <<>>,
      ("X-Request-Id" :> "tid_2") @@ ("X-B3-TraceId" :> "b3"),
      ("X-Request-Id" :> "tid_1") @@ ("Content-Type" :> "application/json") @@
      ("Message-Id" :> "inbound-message-id") @@ ("Message-Type" :> "cms-content-published") @@
      ("Message-Timestamp" :> "2017-01-01T00:00:00.000Z") @@ ("X-Trace" :> "t1") }

InboundHeaders == { o @@ h : o \in OriginHeaders, h \in OtherHeaders }

\* The elements of the inbound "annotations" array, as JSON objects.
JsonAnnotations ==
    { [conceptId |-> "c1", predicate |-> "http://www.ft.com/ontology/annotation/about"],
      [conceptId |-> "c2", predicate |-> "http://www.ft.com/ontology/annotation/mentions"],
      [conceptId |-> "c2", predicate |-> "http://unknown/x"],
      [conceptId |-> "c1", predicate |-> "http://www.ft.com/ontology/annotation/About"] }

SeqsUpTo(S, n) == UNION { [1..k -> S] : k \in 0..n }

\* An inbound body.  syntax = "bad": text that is not a JSON document.
\* Otherwise a JSON object: its "uuid" member (absent, a string or a number)
\* and its "annotations" member (absent, null or an array).
BadBody ==
    [syntax |-> "bad", uuid |-> [t |-> "absent", s |-> ""],
     annotations |-> [t |-> "absent", items |-> <<>>]]

BodiesUpTo(n) ==
    {BadBody} \cup
    { [syntax |-> "ok", uuid |-> [t |-> "number", s |-> "7"],
       annotations |-> [t |-> "array", items |-> <<>>]] } \cup
    { [syntax |-> "ok", uuid |-> [t |-> "string", s |-> u],
       annotations |-> [t |-> "null", items |-> <<>>]] : u \in {"u1"} } \cup
    { [syntax |-> "ok", uuid |-> [t |-> "string", s |-> u],
       annotations |-> [t |-> "array", items |-> a]] :
         u \in {"u1", "u2"}, a \in SeqsUpTo(JsonAnnotations, n) }

MessagesUpTo(n) == { [Headers |-> h, Body |-> b] : h \in InboundHeaders, b \in BodiesUpTo(n) }

Messages == MessagesUpTo(MaxAnnotations)

\* The messages of the specifications with several invocations.
SeqMessages == MessagesUpTo(1)
ConcMessages == MessagesUpTo(1)

----------------------------------------------------------------------------
(* Collaborators *)

\* regexp.Regexp.MatchString, on the strings the model draws origins from.
MatchString(pattern, s) == s \in pattern

\* json.Unmarshal into a PacMetadataPublishEvent.  A document that is not
\* JSON, or whose "uuid" is not a string, is an error; an absent or null
\* member leaves the field at its zero value.
Unmarshal(body) ==
    IF body.syntax = "bad" \/ body.uuid.t = "number"
    THEN [err |-> TRUE, event |-> [UUID |-> "", Annotations |-> <<>>]]
    ELSE [err |-> FALSE,
          event |-> [UUID |-> body.uuid.s,
                     Annotations |->
                        [i \in 1..Len(body.annotations.items) |->
                            [ConceptId |-> body.annotations.items[i].conceptId,
                             Predicate |-> body.annotations.items[i].predicate]]]]

\* json.Marshal of a ConceptAnnotations: a nil slice is written as null, any
\* other slice as an array.  Structs of strings never fail to marshal.
Marshal(conceptAnnotations) ==
    [uuid |-> conceptAnnotations.UUID,
     annotations |->
        [t |-> IF conceptAnnotations.Annotations.nil THEN "null" ELSE "array",
         items |->
            [i \in 1..Len(conceptAnnotations.Annotations.elems) |->
                [thing |->
                    [id |-> conceptAnnotations.Annotations.elems[i].Thing.ID,
                     predicate |-> conceptAnnotations.Annotations.elems[i].Thing.Predicate]]]]]

\* uuid.NewV4().String(): the n-th uuid the generator hands out.
NewV4String(n) == "uuid-" \o ToString(n)

Digit(n) == <<"0", "1", "2", "3", "4", "5", "6", "7", "8", "9">>[n + 1]

(* messageHandler.go:13 *)
messageTimestampDateFormat == "2006-01-02T15:04:05.000Z"

\* time.Time.Format(layout) of the instant t milliseconds after
\* 1970-01-01T00:00:00, for the one layout the handler uses: it prints the
\* wall-clock fields, three fractional digits and a literal Z.
Format(t, layout) ==
    IF layout # messageTimestampDateFormat THEN layout ELSE
    "1970-01-01T00:00:" \o Digit(((t \div 1000) \div 10) % 6) \o Digit((t \div 1000) % 10)
    \o "." \o Digit((t \div 100) % 10) \o Digit((t \div 10) % 10) \o Digit(t % 10) \o "Z"

\* logrus: Entry.WithField and the emission of one line by an Entry.
WithField(entry, key, value) == (key :> value) @@ entry

LogLine(entry, level, text) == [level |-> level, text |-> text, fields |-> entry]

----------------------------------------------------------------------------
(* messageHandler.go:82-91 *)

NilAnnotation == [isNil |-> TRUE, Thing |-> [ID |-> "", Predicate |-> ""]]

\* As buildAnnotation, with the inbound predicate kept in place of the one
\* looked up.
buildAnnotationKeepingUri(metadata) ==
    IF metadata.Predicate \in DOMAIN predicates
    THEN [isNil |-> FALSE,
          Thing |-> [ID |-> metadata.ConceptId, Predicate |-> metadata.Predicate]]
    ELSE NilAnnotation

buildAnnotation(metadata) ==
    IF metadata.Predicate \in DOMAIN predicates
    THEN [isNil |-> FALSE,
          Thing |-> [ID |-> metadata.ConceptId,
                     Predicate |-> predicates[metadata.Predicate]]]
    ELSE NilAnnotation

\* As buildConceptAnnotationsHeader, with the six keys set on a copy of the
\* inbound map.
buildHeaderOnCopy(publishEventHeaders) ==
    ("Message-Id" :> NewV4String(uuidCount + 1)) @@
    ("Message-Type" :> "concept-annotation") @@
    ("Message-Timestamp" :> Format(wallClock, messageTimestampDateFormat)) @@
    publishEventHeaders

\* As buildConceptAnnotationsHeader, with the inbound Message-Id passed on.
buildHeaderPassingId(publishEventHeaders) ==
    ("Message-Id" :> Get(publishEventHeaders, "Message-Id")) @@
    ("Message-Type" :> "concept-annotation") @@
    ("Content-Type" :> Get(publishEventHeaders, "Content-Type")) @@
    ("X-Request-Id" :> Get(publishEventHeaders, "X-Request-Id")) @@
    ("Origin-System-Id" :> Get(publishEventHeaders, "Origin-System-Id")) @@
    ("Message-Timestamp" :> Format(wallClock, messageTimestampDateFormat))

(* messageHandler.go:93-102 *)
buildConceptAnnotationsHeader(publishEventHeaders) ==
    ("Message-Id" :> NewV4String(uuidCount + 1)) @@
    ("Message-Type" :> "concept-annotation") @@
    ("Content-Type" :> Get(publishEventHeaders, "Content-Type")) @@
    ("X-Request-Id" :> Get(publishEventHeaders, "X-Request-Id")) @@
    ("Origin-System-Id" :> Get(publishEventHeaders, "Origin-System-Id")) @@
    ("Message-Timestamp" :> Format(wallClock, messageTimestampDateFormat))

\* As MapLoop, with each mapped annotation put at the front of the slice.
RECURSIVE MapLoopPrepending(_, _, _, _)
MapLoopPrepending(values, acc, lines, requestLog) ==
    IF values = <<>> THEN [annotations |-> acc, lines |-> lines]
    ELSE LET value == Head(values)
             ann == buildAnnotation(value)
         IN IF ~ann.isNil
            THEN MapLoopPrepending(Tail(values),
                         [nil |-> FALSE, elems |-> <<[Thing |-> ann.Thing]>> \o acc.elems],
                         lines, requestLog)
            ELSE MapLoopPrepending(Tail(values), acc,
                         Append(lines,
                                LogLine(WithField(requestLog, "metadata", value), "warning",
                                        "metadata for an unsupported predicate was not mapped")),
                         requestLog)

(* messageHandler.go:53-61: the loop over metadataPublishEvent.Annotations,
   from the slice and the log lines accumulated so far. *)
RECURSIVE MapLoop(_, _, _, _)
MapLoop(values, acc, lines, requestLog) ==
    IF values = <<>> THEN [annotations |-> acc, lines |-> lines]
    ELSE LET value == Head(values)
             ann == buildAnnotation(value)
         IN IF ~ann.isNil
            THEN MapLoop(Tail(values),
                         [nil |-> FALSE, elems |-> Append(acc.elems, [Thing |-> ann.Thing])],
                         lines, requestLog)
            ELSE MapLoop(Tail(values), acc,
                         Append(lines,
                                LogLine(WithField(requestLog, "metadata", value), "warning",
                                        "metadata for an unsupported predicate was not mapped")),
                         requestLog)

----------------------------------------------------------------------------
(* State *)

NoMessage == [Headers |-> <<>>, Body |-> BadBody]
NoEvent == [UUID |-> "", Annotations |-> <<>>]
NilSlice == [nil |-> TRUE, elems |-> <<>>]
NoOutMessage == [Headers |-> <<>>, Body |-> Marshal([UUID |-> "", Annotations |-> NilSlice])]

Init ==
    /\ whitelist \in WhitelistPatterns
    /\ predicates = predicateTable
    /\ wallClock \in 0..MaxClock
    /\ uuidCount = 0
    /\ calls = 0
    /\ pc = [p \in Slots |-> "idle"]
    /\ msg = [p \in Slots |-> NoMessage]
    /\ event = [p \in Slots |-> NoEvent]
    /\ annotations = [p \in Slots |-> NilSlice]
    /\ outMsg = [p \in Slots |-> NoOutMessage]
    /\ ret = [p \in Slots |-> "none"]
    /\ sendCalls = [p \in Slots |-> 0]
    /\ sendResult = [p \in Slots |-> "none"]
    /\ logs = [p \in Slots |-> <<>>]
    /\ stamps = <<>>
    /\ setBack = FALSE

\* requestLog as set at line 35 and as reset at line 50.
RequestLog35(p) == WithField(<<>>, "transaction_id", Get(msg[p].Headers, "X-Request-Id"))

\* As RequestLog50, without the uuid field.
RequestLogWithoutUuid(p) == RequestLog35(p)

RequestLog50(p) == WithField(RequestLog35(p), "uuid", event[p].UUID)

\* The caller invokes HandleMessage(m) in slot p: the locals of the call start
\* out at their zero values.
Enter(p, m) ==
    /\ pc[p] \in {"idle", "returned"}
    /\ msg' = [msg EXCEPT ![p] = m]
    /\ event' = [event EXCEPT ![p] = NoEvent]
    /\ annotations' = [annotations EXCEPT ![p] = NilSlice]
    /\ outMsg' = [outMsg EXCEPT ![p] = NoOutMessage]
    /\ sendCalls' = [sendCalls EXCEPT ![p] = 0]
    /\ sendResult' = [sendResult EXCEPT ![p] = "none"]
    /\ calls' = calls + 1

\* As Rejected, with a missing Origin-System-Id let through.
RejectedUnlessEmpty(systemCode) == systemCode # "" /\ ~MatchString(whitelist, systemCode)

\* messageHandler.go:38: does the whitelist reject this system code?
Rejected(systemCode) == ~MatchString(whitelist, systemCode)

(* messageHandler.go:33-41: the origin does not match; log and return nil. *)
Skip(p, m) ==
    /\ Enter(p, m)
    /\ Rejected(Get(m.Headers, "Origin-System-Id"))
    /\ logs' = [logs EXCEPT ![p] =
                  << LogLine(WithField(<<>>, "transaction_id", Get(m.Headers, "X-Request-Id")),
                             "info", "Skipping annotations published with Origin-System-Id") >>]
    /\ ret' = [ret EXCEPT ![p] = "nil"]
    /\ pc' = [pc EXCEPT ![p] = "returned"]
    /\ UNCHANGED <<whitelist, predicates, wallClock, uuidCount, stamps, setBack>>

(* messageHandler.go:33-38: the origin matches; go on to decode the body. *)
Accept(p, m) ==
    /\ Enter(p, m)
    /\ ~Rejected(Get(m.Headers, "Origin-System-Id"))
    /\ logs' = [logs EXCEPT ![p] = <<>>]
    /\ ret' = [ret EXCEPT ![p] = "none"]
    /\ pc' = [pc EXCEPT ![p] = "decode"]
    /\ UNCHANGED <<whitelist, predicates, wallClock, uuidCount, stamps, setBack>>

\* As AfterDecodeError, without the return: the handler carries on.
AfterDecodeErrorCarryOn == "map"

\* Where an invocation stands after json.Unmarshal has returned an error.
AfterDecodeError == "returned"

(* messageHandler.go:43-48: the body does not decode; log and return err. *)
DecodeFail(p) ==
    /\ pc[p] = "decode"
    /\ Unmarshal(msg[p].Body).err
    /\ logs' = [logs EXCEPT ![p] =
                  Append(@, LogLine(RequestLog35(p), "error", "Cannot unmarshal message body"))]
    /\ ret' = [ret EXCEPT ![p] = "DecodeError"]
    /\ pc' = [pc EXCEPT ![p] = AfterDecodeError]
    /\ UNCHANGED <<whitelist, predicates, wallClock, uuidCount, calls, msg, event,
                   annotations, outMsg, sendCalls, sendResult, stamps, setBack>>

(* messageHandler.go:43-51: the body decodes. *)
DecodeOk(p) ==
    /\ pc[p] = "decode"
    /\ ~Unmarshal(msg[p].Body).err
    /\ event' = [event EXCEPT ![p] = Unmarshal(msg[p].Body).event]
    /\ logs' = [logs EXCEPT ![p] =
                  Append(@, LogLine(WithField(RequestLog35(p), "uuid",
                                              Unmarshal(msg[p].Body).event.UUID),
                                    "info", "Processing metadata publish event"))]
    /\ pc' = [pc EXCEPT ![p] = "map"]
    /\ UNCHANGED <<whitelist, predicates, wallClock, uuidCount, calls, msg,
                   annotations, outMsg, ret, sendCalls, sendResult, stamps, setBack>>

\* As EmptyAnnotations, for the declaration `var annotations []annotation`.
DeclaredAnnotations == [nil |-> TRUE, elems |-> <<>>]

\* messageHandler.go:53: annotations := []annotation{}
EmptyAnnotations == [nil |-> FALSE, elems |-> <<>>]

\* As EventOf, with the decoded event kept in one place shared by the
\* invocations: slot 1's event while slot 1 is at work on it.
EventOfShared(p) == IF pc[1] \in {"map", "encode", "send"} THEN event[1] ELSE event[p]

\* The event the loop of invocation p ranges over.
EventOf(p) == event[p]

(* messageHandler.go:53-61: annotations := []annotation{} and the loop. *)
MapAnnotations(p) ==
    /\ pc[p] = "map"
    /\ LET r == MapLoop(EventOf(p).Annotations, EmptyAnnotations,
                        logs[p], RequestLog50(p))
       IN /\ annotations' = [annotations EXCEPT ![p] = r.annotations]
          /\ logs' = [logs EXCEPT ![p] = r.lines]
    /\ pc' = [pc EXCEPT ![p] = "encode"]
    /\ UNCHANGED <<whitelist, predicates, wallClock, uuidCount, calls, msg, event,
                   outMsg, ret, sendCalls, sendResult, stamps, setBack>>

(* messageHandler.go:63-72: build the envelope, marshal it (which cannot fail
   for these types), derive the headers and build the outbound message. *)
Encode(p) ==
    /\ pc[p] = "encode"
    /\ outMsg' = [outMsg EXCEPT ![p] =
                    [Headers |-> buildConceptAnnotationsHeader(msg[p].Headers),
                     Body |-> Marshal([UUID |-> event[p].UUID,
                                       Annotations |-> annotations[p]])]]
    /\ uuidCount' = uuidCount + 1
    /\ pc' = [pc EXCEPT ![p] = "send"]
    /\ UNCHANGED <<whitelist, predicates, wallClock, calls, msg, event, annotations,
                   ret, sendCalls, sendResult, logs, stamps, setBack>>

\* mapper.messageProducer.SendMessage(message) returns result.
SendMessage(p, result) ==
    /\ pc[p] = "send"
    /\ sendCalls' = [sendCalls EXCEPT ![p] = @ + 1]
    /\ sendResult' = [sendResult EXCEPT ![p] = result]
    /\ stamps' = Append(stamps, [id |-> outMsg[p].Headers["Message-Id"],
                                 ts |-> outMsg[p].Headers["Message-Timestamp"]])

\* As AfterSendError, with the send tried again.
AfterSendErrorRetry == "send"

\* Where an invocation stands after SendMessage has returned an error.
AfterSendError == "returned"

(* messageHandler.go:73-77: SendMessage fails; log and return err. *)
SendFail(p) ==
    /\ SendMessage(p, "err")
    /\ logs' = [logs EXCEPT ![p] =
                  Append(@, LogLine(RequestLog50(p), "error",
                                    "Error sending concept annotation to queue"))]
    /\ ret' = [ret EXCEPT ![p] = "SendError"]
    /\ pc' = [pc EXCEPT ![p] = AfterSendError]
    /\ UNCHANGED <<whitelist, predicates, wallClock, uuidCount, calls, msg, event,
                   annotations, outMsg, setBack>>

(* messageHandler.go:73-79: SendMessage succeeds; log and return nil. *)
SendOk(p) ==
    /\ SendMessage(p, "ok")
    /\ logs' = [logs EXCEPT ![p] =
                  Append(@, LogLine(RequestLog50(p), "info", "Sent annotation message to queue"))]
    /\ ret' = [ret EXCEPT ![p] = "nil"]
    /\ pc' = [pc EXCEPT ![p] = "returned"]
    /\ UNCHANGED <<whitelist, predicates, wallClock, uuidCount, calls, msg, event,
                   annotations, outMsg, setBack>>

(* The wall clock: it advances, and it can be set back (a clock
   synchronisation step, or the local zone leaving daylight saving time:
   time.Now() is a local time and Format prints its wall-clock fields). *)
Tick ==
    /\ wallClock < MaxClock
    /\ wallClock' = wallClock + 1
    /\ UNCHANGED <<whitelist, predicates, uuidCount, calls, pc, msg, event,
                   annotations, outMsg, ret, sendCalls, sendResult, logs, stamps, setBack>>

SetBack ==
    /\ \E t \in 0..(wallClock - 1) : wallClock' = t
    /\ setBack' = TRUE
    /\ UNCHANGED <<whitelist, predicates, uuidCount, calls, pc, msg, event,
                   annotations, outMsg, ret, sendCalls, sendResult, logs, stamps>>

(* One invocation of HandleMessage, on any message. *)
Next ==
    \/ \E m \in Messages : pc[1] = "idle" /\ Skip(1, m)
    \/ \E m \in Messages : pc[1] = "idle" /\ Accept(1, m)
    \/ DecodeFail(1)
    \/ DecodeOk(1)
    \/ MapAnnotations(1)
    \/ Encode(1)
    \/ SendFail(1)
    \/ SendOk(1)
    \/ Tick
    \/ SetBack

Spec == Init /\ [][Next]_vars

(* One consumer: HandleMessage is called again only after it has returned. *)
NextSeq ==
    \/ \E m \in SeqMessages : calls < MaxCalls /\ Skip(1, m)
    \/ \E m \in SeqMessages : calls < MaxCalls /\ Accept(1, m)
    \/ DecodeFail(1)
    \/ DecodeOk(1)
    \/ MapAnnotations(1)
    \/ Encode(1)
    \/ SendFail(1)
    \/ SendOk(1)
    \/ Tick
    \/ SetBack

SpecSeq == Init /\ [][NextSeq]_vars

(* Two consumers: one invocation in each slot, interleaved. *)
NextConc ==
    \/ \E p \in Slots, m \in ConcMessages : pc[p] = "idle" /\ Skip(p, m)
    \/ \E p \in Slots, m \in ConcMessages : pc[p] = "idle" /\ Accept(p, m)
    \/ \E p \in Slots : DecodeFail(p)
    \/ \E p \in Slots : DecodeOk(p)
    \/ \E p \in Slots : MapAnnotations(p)
    \/ \E p \in Slots : Encode(p)
    \/ \E p \in Slots : SendFail(p)
    \/ \E p \in Slots : SendOk(p)

SpecConc == Init /\ [][NextConc]_vars

----------------------------------------------------------------------------
(* Properties *)

Origin(p) == Get(msg[p].Headers, "Origin-System-Id")
Whitelisted(p) == MatchString(whitelist, Origin(p))
Malformed(body) == body.syntax = "bad" \/ body.uuid.t = "number"
Returned(p) == pc[p] = "returned"

\* The outbound message of invocation p has been built.
Built(p) == pc[p] = "send" \/ sendCalls[p] > 0

\* The inbound annotation array and the outbound one.
InItems(p) == msg[p].Body.annotations.items
OutItems(p) == outMsg[p].Body.annotations.items

Mapped(item) == item.predicate \in DOMAIN predicateTable
MappedItem(item) ==
    [thing |-> [id |-> item.conceptId, predicate |-> predicateTable[item.predicate]]]
Count(seq, x) == Cardinality({ k \in 1..Len(seq) : seq[k] = x })

\* C1: an invocation whose Origin-System-Id (the empty string when the header
\* is absent) does not match the whitelist has returned nil and has never
\* invoked SendMessage, whatever its body.
C1_UnlistedOriginSkipped ==
    \A p \in Slots :
        (pc[p] # "idle" /\ ~Whitelisted(p)) =>
            /\ Returned(p)
            /\ ret[p] = "nil"
            /\ sendCalls[p] = 0
            /\ sendResult[p] = "none"

C1_Witness ==
    \E p \in Slots :
        /\ Returned(p)
        /\ "Origin-System-Id" \notin DOMAIN msg[p].Headers
        /\ msg[p].Body.syntax = "bad"
        /\ ret[p] = "nil"

\* C2: an invocation whose origin matches and whose body does not decode
\* never gets past decoding, never invokes SendMessage, and returns the
\* decode failure.
C2_DecodeFailureReturned ==
    \A p \in Slots :
        (pc[p] # "idle" /\ Whitelisted(p) /\ Malformed(msg[p].Body)) =>
            /\ pc[p] \in {"decode", "returned"}
            /\ Returned(p) => ret[p] = "DecodeError"
            /\ sendCalls[p] = 0

C2_Witness ==
    \E p \in Slots :
        /\ Returned(p)
        /\ Whitelisted(p)
        /\ msg[p].Body.syntax = "bad"
        /\ ret[p] = "DecodeError"

\* C3: the outbound envelope carries the inbound uuid and, for every inbound
\* annotation whose predicate is a key of the table, as many annotations with
\* that concept id and the table's short name as the input has occurrences
\* of it.
C3_MappedOncePerOccurrence ==
    \A p \in Slots :
        Built(p) =>
            /\ outMsg[p].Body.uuid = msg[p].Body.uuid.s
            /\ \A i \in 1..Len(InItems(p)) :
                 Mapped(InItems(p)[i]) =>
                    Count(OutItems(p), MappedItem(InItems(p)[i])) = Count(InItems(p), InItems(p)[i])

C3_Witness ==
    \E p \in Slots :
        /\ Returned(p)
        /\ sendResult[p] = "ok"
        /\ Len(InItems(p)) = 2
        /\ InItems(p)[1] = InItems(p)[2]
        /\ Mapped(InItems(p)[1])
        /\ Len(OutItems(p)) = 2

\* The positions of the inbound annotations that are mapped, and the place
\* of the i-th inbound annotation among them.
Kept(p) == { i \in 1..Len(InItems(p)) : Mapped(InItems(p)[i]) }
Rank(p, i) == Cardinality({ j \in Kept(p) : j <= i })

\* C4: the outbound annotations are the mapped inbound ones in their inbound
\* order, so there are as many as inbound ones less the unmapped ones; and an
\* invocation with unmapped annotations still sends.
C4_UnmappedDroppedInOrder ==
    \A p \in Slots :
        /\ Built(p) =>
            /\ Len(OutItems(p)) = Len(InItems(p)) - Cardinality((1..Len(InItems(p))) \ Kept(p))
            /\ \A i \in Kept(p) : OutItems(p)[Rank(p, i)] = MappedItem(InItems(p)[i])
        /\ (Returned(p) /\ Whitelisted(p) /\ ~Malformed(msg[p].Body)) =>
            /\ sendCalls[p] = 1
            /\ ret[p] # "DecodeError"

C4_Witness ==
    \E p \in Slots :
        /\ Returned(p)
        /\ ret[p] = "nil"
        /\ sendCalls[p] = 1
        /\ Len(InItems(p)) = 2
        /\ ~Mapped(InItems(p)[1])
        /\ Mapped(InItems(p)[2])
        /\ OutItems(p) = << MappedItem(InItems(p)[2]) >>

SixKeys ==
    {"Message-Id", "Message-Type", "Content-Type", "X-Request-Id", "Origin-System-Id",
     "Message-Timestamp"}

C5_HeadersOfBuilt ==
    \A p \in Slots :
        Built(p) =>
            /\ DOMAIN outMsg[p].Headers = SixKeys
            /\ outMsg[p].Headers["Message-Type"] = "concept-annotation"
            /\ \A k \in {"Content-Type", "X-Request-Id", "Origin-System-Id"} :
                 outMsg[p].Headers[k] = Get(msg[p].Headers, k)

\* C5: the headers handed to the producer have exactly the six keys, the
\* fixed Message-Type and the three inbound values (empty where the inbound
\* map lacks the key); and no step of an invocation changes its inbound
\* message.
C5_ClosedHeaderSet ==
    /\ []C5_HeadersOfBuilt
    /\ [][\A p \in Slots : pc[p] \notin {"idle", "returned"} => msg'[p] = msg[p]]_vars

C5_Witness ==
    \E p \in Slots :
        /\ Returned(p)
        /\ sendCalls[p] = 1
        /\ "X-B3-TraceId" \in DOMAIN msg[p].Headers
        /\ "Content-Type" \notin DOMAIN msg[p].Headers
        /\ outMsg[p].Headers["Content-Type"] = ""

\* C6: an invocation whose origin matches and whose body decodes has, once
\* returned, invoked SendMessage exactly once and returned nil if that call
\* succeeded; when no inbound annotation is mapped the envelope carries the
\* inbound uuid and an empty array, not null.
C6_SentOnceAlsoWhenEmpty ==
    \A p \in Slots :
        (Returned(p) /\ Whitelisted(p) /\ ~Malformed(msg[p].Body)) =>
            /\ sendCalls[p] = 1
            /\ sendResult[p] = "ok" => ret[p] = "nil"
            /\ Kept(p) = {} =>
                /\ outMsg[p].Body.uuid = msg[p].Body.uuid.s
                /\ outMsg[p].Body.annotations.t = "array"
                /\ OutItems(p) = <<>>

C6_Witness ==
    \E p \in Slots :
        /\ Returned(p)
        /\ msg[p].Body.annotations.t = "null"
        /\ sendCalls[p] = 1
        /\ ret[p] = "nil"
        /\ outMsg[p].Body.annotations.t = "array"

Skipped(p) == ret[p] = "nil" /\ sendCalls[p] = 0 /\ sendResult[p] = "none"
Dispatched(p) == ret[p] = "nil" /\ sendCalls[p] = 1 /\ sendResult[p] = "ok"
Failed(p) ==
    \/ ret[p] = "DecodeError" /\ sendCalls[p] = 0 /\ sendResult[p] = "none"
    \/ ret[p] = "SendError" /\ sendCalls[p] = 1 /\ sendResult[p] = "err"

\* C7: an invocation invokes SendMessage at most once; once SendMessage has
\* failed the invocation has returned that failure; and a returned invocation
\* is in exactly one of Skipped, Dispatched and Failed.
C7_NoRetry ==
    \A p \in Slots :
        /\ sendCalls[p] <= 1
        /\ sendResult[p] = "err" => (Returned(p) /\ ret[p] = "SendError")
        /\ Returned(p) =>
            Cardinality({ o \in {"skipped", "dispatched", "failed"} :
                            \/ o = "skipped" /\ Skipped(p)
                            \/ o = "dispatched" /\ Dispatched(p)
                            \/ o = "failed" /\ Failed(p) }) = 1

C7_Witness ==
    \E p \in Slots : Returned(p) /\ ret[p] = "SendError" /\ sendCalls[p] = 1

\* The instant a Message-Timestamp denotes, if it is in the fixed format.
ParsesTs(s) == \E t \in 0..MaxClock : Format(t, messageTimestampDateFormat) = s
ParseTs(s) == CHOOSE t \in 0..MaxClock : Format(t, messageTimestampDateFormat) = s

\* C8 as stated: over the messages handed to the producer by successive
\* calls, the Message-Timestamps never decrease and no Message-Id is repeated.
C8_MonotoneStamps ==
    \A i, j \in 1..Len(stamps) :
        i < j =>
            /\ stamps[i].id # stamps[j].id
            /\ ParsesTs(stamps[i].ts) /\ ParsesTs(stamps[j].ts)
            /\ ParseTs(stamps[i].ts) <= ParseTs(stamps[j].ts)

\* C8 as amended: every Message-Timestamp is in the fixed format, no
\* Message-Id is repeated, and the Message-Timestamps never decrease as long
\* as the wall clock has not been set back.
C8_MonotoneUnlessSetBack ==
    /\ \A i \in 1..Len(stamps) : ParsesTs(stamps[i].ts)
    /\ \A i, j \in 1..Len(stamps) :
        i < j =>
            /\ stamps[i].id # stamps[j].id
            /\ ~setBack => ParseTs(stamps[i].ts) <= ParseTs(stamps[j].ts)

C8_Witness ==
    /\ Len(stamps) >= 2
    /\ ~setBack
    /\ stamps[1].ts # stamps[2].ts
    /\ \A p \in Slots : pc[p] \in {"idle", "returned"}

\* What HandleMessage(m) does when it runs alone, given what SendMessage
\* returns.
AloneSends(m) ==
    IF ~MatchString(whitelist, Get(m.Headers, "Origin-System-Id")) \/ Unmarshal(m.Body).err
    THEN 0 ELSE 1

AloneRet(m, result) ==
    IF ~MatchString(whitelist, Get(m.Headers, "Origin-System-Id")) THEN "nil"
    ELSE IF Unmarshal(m.Body).err THEN "DecodeError"
    ELSE IF result = "err" THEN "SendError"
    ELSE "nil"

AloneBody(m) ==
    Marshal([UUID |-> Unmarshal(m.Body).event.UUID,
             Annotations |-> MapLoop(Unmarshal(m.Body).event.Annotations,
                                     EmptyAnnotations, <<>>, <<>>).annotations])

C9_AsIfAlone ==
    \A p \in Slots :
        /\ Returned(p) =>
            /\ ret[p] = AloneRet(msg[p], sendResult[p])
            /\ sendCalls[p] = AloneSends(msg[p])
        /\ Built(p) =>
            /\ outMsg[p].Body = AloneBody(msg[p])
            /\ \A k \in {"Content-Type", "X-Request-Id", "Origin-System-Id"} :
                 outMsg[p].Headers[k] = Get(msg[p].Headers, k)

\* C9: however the invocations interleave, no step writes the predicate
\* table or the whitelist, and each invocation returns, sends and builds its
\* message as it would alone on its own inbound message.
C9_Isolation ==
    /\ []C9_AsIfAlone
    /\ [][whitelist' = whitelist /\ predicates' = predicates]_vars

\* Slot 2 built its message first and slot 1 sent first, on another message.
C9_Witness ==
    /\ Returned(1) /\ sendCalls[1] = 1
    /\ pc[2] = "send"
    /\ outMsg[2].Headers["Message-Id"] = NewV4String(1)
    /\ outMsg[1].Headers["Message-Id"] = NewV4String(2)
    /\ outMsg[1].Body # outMsg[2].Body
    /\ Len(InItems(1)) = 1 /\ Len(InItems(2)) = 1

SkipText == "Skipping annotations published with Origin-System-Id"
DecodeText == "Cannot unmarshal message body"

\* C10 as stated: every log line carries the transaction id and the uuid.
C10_AllLinesTagged ==
    \A p \in Slots : \A i \in 1..Len(logs[p]) :
        {"transaction_id", "uuid"} \subseteq DOMAIN logs[p][i].fields

\* C10 as amended: every log line carries the X-Request-Id as transaction_id;
\* the lines written after the body has decoded also carry the event's uuid;
\* the skip line and the decode-failure line carry no uuid.
C10_TaggedOnceDecoded ==
    \A p \in Slots : \A i \in 1..Len(logs[p]) :
        /\ "transaction_id" \in DOMAIN logs[p][i].fields
        /\ logs[p][i].fields["transaction_id"] = Get(msg[p].Headers, "X-Request-Id")
        /\ IF logs[p][i].text \in {SkipText, DecodeText}
           THEN "uuid" \notin DOMAIN logs[p][i].fields
           ELSE /\ "uuid" \in DOMAIN logs[p][i].fields
                /\ logs[p][i].fields["uuid"] = msg[p].Body.uuid.s

C10_Witness ==
    \E p \in Slots :
        /\ Returned(p)
        /\ ret[p] = "SendError"
        /\ \E i \in 1..Len(logs[p]) : logs[p][i].level = "warning"
        /\ logs[p][Len(logs[p])].text = "Error sending concept annotation to queue"
        /\ "X-Request-Id" \in DOMAIN msg[p].Headers

====
